---- MODULE Spec2Model ----
(***************************************************************************)
(* StreamAudioPlayer (src/src/main.ts): a queue of decoded audio buffers   *)
(* scheduled back to back on a Web Audio AudioContext, with play, pause    *)
(* and reset.  Every caller operation and every callback runs to its next  *)
(* await on the single JavaScript thread, so each action below is one such *)
(* run: the synchronous part of a method, the continuation after an await, *)
(* or one source.onended handler.                                          *)
(*                                                                         *)
(* Time is counted in ticks of half a second: a buffer of duration 0.5 s   *)
(* has dur = 1.                                                            *)
(*                                                                         *)
(* The device (Web Audio) is the environment.  AudioContext.state changes  *)
(* when the promise of resume(), suspend() or close() settles, not when    *)
(* the method is called; the promises of one context settle in call order. *)
(* A promise that settles on a closed context may resolve or reject.  The  *)
(* ended event of a source is delivered once, at any time after the source *)
(* was stopped or the clock of its context reached its end.                *)
(***************************************************************************)
EXTENDS Integers, Sequences, FiniteSets, TLC

\* ---------------------------------------------------------------- bounds
MaxChunks == 3      \* chunks accepted by addChunk over a run
MaxDur == 2         \* longest buffer, in ticks
MaxTime == 3        \* last tick of a device clock
MaxResets == 1      \* reset() calls over a run
MaxPending == 2     \* device operations awaiting completion at once
MaxListeners == 2   \* distinct listeners a caller registers

Durations == 1..MaxDur
States == {"idle", "playing", "paused", "ended", "resetting"}
Listeners == 1..MaxListeners

VARIABLES
    internalState,           \* this.internalState
    audioBufferQueue,        \* this.audioBufferQueue, front first: the
                             \* buffers [id, dur] with what held when addChunk
                             \* took them (epoch, after)
    nextStartTime,           \* this.nextStartTime
    scheduledBufferSources,  \* this.scheduledBufferSources: source ids
    audioContext,            \* this.audioContext: id of the current context;
                             \* a reset's continuation makes context id + 1,
                             \* so it is also the number of completed resets
    ctxState,                \* AudioContext.state of every context made so far
    ctxTime,                 \* AudioContext.currentTime of every context
    pending,                 \* resume/suspend/close promises not yet settled,
                             \* a resume with the state play() was called in
    sources,                 \* every AudioBufferSourceNode made, by id; what
                             \* was scheduled before the last reset step is
                             \* forgotten (Forget) once it can no longer act
    nChunks,                 \* chunks accepted by addChunk so far
    resetsBegun,             \* reset() calls so far
    nEnded,                  \* 'ended' events dispatched so far
    lastEndedAt,             \* Len(sources) at the last 'ended' event, or -1
    outcome,                 \* what the step just taken threw, or "ok"
    eventTarget,             \* this.eventTarget: its 'ended' listeners
    stale,                   \* listeners registered on an EventTarget that
                             \* reset() replaced, and not registered since
    invoked,                 \* listeners the last 'ended' event called
    stopErrors,              \* sources whose stop() threw in the last reset()
                             \* (logged by console.error, line 276)
    callerPc                 \* position of the scripted caller (SpecCaller)

vars == <<internalState, audioBufferQueue, nextStartTime,
          scheduledBufferSources, audioContext, ctxState, ctxTime, pending,
          sources, nChunks, resetsBegun, nEnded, lastEndedAt, outcome,
          eventTarget, stale, invoked, stopErrors, callerPc>>

\* the listener side of the player
lvars == <<eventTarget, stale, invoked>>

\* ------------------------------------------------------------- helpers
Max(a, b) == IF a >= b THEN a ELSE b

Range(s) == {s[i] : i \in DOMAIN s}

\* Array.prototype.indexOf + splice(index, 1): drop the first x, if any
RECURSIVE Remove(_, _)
Remove(s, x) ==
    IF s = <<>> THEN <<>>
    ELSE IF Head(s) = x THEN Tail(s)
    ELSE <<Head(s)>> \o Remove(Tail(s), x)

\* Resets begun plus resets completed: changes at every reset step
Epoch == resetsBegun + audioContext

\* A source whose ended event was delivered, and a source stopped by reset():
\* neither start time nor buffer of such a source is read again.
Gone == [buf |-> 0, start |-> 0, dur |-> 0, ctx |-> 0, pass |-> 0,
         epoch |-> 0, added |-> 0, after |-> 0,
         stopped |-> FALSE, fired |-> TRUE]
Stopped == [buf |-> 0, start |-> 0, dur |-> 0, ctx |-> 0, pass |-> 0,
            epoch |-> 0, added |-> 0, after |-> 0,
            stopped |-> TRUE, fired |-> FALSE]

\* At a reset step the record of what was scheduled earlier is dropped.
Forget(srcs) ==
    [i \in DOMAIN srcs |->
        IF srcs[i].fired THEN Gone
        ELSE IF srcs[i].stopped THEN Stopped
        ELSE srcs[i]]

\* ------------------------------------------------------ scheduling core
\* startTime = Math.max(this.nextStartTime, this.audioContext.currentTime)
StartTimeNow(nst, now) == now
StartTime(nst, now) == Max(nst, now)

\* this.nextStartTime = startTime + audioBuffer.duration
NextStartSame(start, dur) == start
NextStart(start, dur) == start + dur

\* this.audioBufferQueue.push(audioBuffer)
PushFront(q, b) == <<b>> \o q
Push(q, b) == Append(q, b)

\* scheduleNextBufferSource(): the scheduler state is the record
\* [q, nst, sched, srcs]; st is this.internalState, pass names the pass
\* (the id of the first source it makes).
\* the guard of scheduleNextBufferSource (lines 176-182); the model always
\* has an AudioContext
NothingToScheduleInAnyState(st, q) == q = <<>>
NothingToSchedule(st, q) == q = <<>> \/ st # "playing"

RECURSIVE ScheduleNextBufferSource(_, _, _)
ScheduleNextBufferSource(st, S, pass) ==
    IF NothingToSchedule(st, S.q) THEN S
    ELSE
        LET b == Head(S.q)
            dur == b.dur
            startTime == StartTime(S.nst, ctxTime[audioContext])
            src == [buf |-> b.id, start |-> startTime, dur |-> dur,
                    ctx |-> audioContext, pass |-> pass, epoch |-> Epoch,
                    added |-> b.epoch, after |-> b.after,
                    stopped |-> FALSE, fired |-> FALSE]
            id == Len(S.srcs) + 1
        IN ScheduleNextBufferSource(st,
              [q |-> Tail(S.q),
               nst |-> NextStart(startTime, dur),
               sched |-> Append(S.sched, id),
               srcs |-> Append(S.srcs, src)],
              pass)

Sched == [q |-> audioBufferQueue, nst |-> nextStartTime,
          sched |-> scheduledBufferSources, srcs |-> sources]

SetSched(S) ==
    /\ audioBufferQueue' = S.q
    /\ nextStartTime' = S.nst
    /\ scheduledBufferSources' = S.sched
    /\ sources' = S.srcs

\* play() from line 245 on: runs at once, or after the await of resume()
PlayTailAlways(st) ==
    IF audioBufferQueue # <<>>
    THEN ScheduleNextBufferSource(st,
            [Sched EXCEPT !.nst = ctxTime[audioContext]], Len(sources) + 1)
    ELSE Sched
PlayTail(st) ==
    IF scheduledBufferSources = <<>> /\ audioBufferQueue # <<>>
    THEN ScheduleNextBufferSource(st,
            [Sched EXCEPT !.nst = ctxTime[audioContext]], Len(sources) + 1)
    ELSE Sched

\* ------------------------------------------------------------------ Init
Init ==
    /\ internalState = "idle"
    /\ audioBufferQueue = <<>>
    /\ nextStartTime = 0
    /\ scheduledBufferSources = <<>>
    /\ audioContext = 0
    /\ ctxState \in [{0} -> {"suspended", "running"}]
    /\ ctxTime = [c \in {0} |-> 0]
    /\ pending = <<>>
    /\ sources = <<>>
    /\ nChunks = 0
    /\ resetsBegun = 0
    /\ nEnded = 0
    /\ lastEndedAt = -1
    /\ outcome = "ok"
    /\ eventTarget = {}
    /\ stale = {}
    /\ invoked = {}
    /\ stopErrors = {}
    /\ callerPc = "free"

\* ---------------------------------------------------------- caller steps
\* The source made last, when it is in flight and still rendering, with
\* nothing queued behind it, and the player is playing; 0 otherwise.  A chunk taken then follows it.
InFlightLast ==
    IF /\ internalState = "playing"
       /\ audioBufferQueue = <<>>
       /\ sources # <<>>
       /\ Len(sources) \in Range(scheduledBufferSources)
       /\ ~sources[Len(sources)].fired
       /\ ctxTime[sources[Len(sources)].ctx]
             < sources[Len(sources)].start + sources[Len(sources)].dur
    THEN Len(sources) ELSE 0

\* the guard of addChunk (line 164)
AddChunkNeverRejects == FALSE
AddChunkRejects == internalState = "resetting"

AddChunkBody(d) ==
    IF AddChunkRejects
    THEN /\ outcome' = "Cannot add chunk while resetting"
         /\ UNCHANGED <<nChunks, audioBufferQueue>>
    ELSE /\ nChunks < MaxChunks
         /\ nChunks' = nChunks + 1
         /\ audioBufferQueue' = Push(audioBufferQueue,
                [id |-> nChunks + 1, dur |-> d, epoch |-> Epoch,
                 after |-> InFlightLast])
         /\ outcome' = "ok"

AddChunk(d) ==
    /\ AddChunkBody(d)
    /\ UNCHANGED <<internalState, nextStartTime, scheduledBufferSources,
                   audioContext, ctxState, ctxTime, pending, sources,
                   resetsBegun, nEnded, lastEndedAt, callerPc, lvars, stopErrors>>

PlayBody ==
    IF internalState = "playing"
    THEN /\ outcome' = "ok"
         /\ UNCHANGED <<internalState, audioBufferQueue, nextStartTime,
                        scheduledBufferSources, sources, pending>>
    ELSE /\ internalState' = "playing"
         /\ IF ctxState[audioContext] = "suspended"
            THEN /\ Len(pending) < MaxPending
                 /\ pending' = Append(pending,
                                      [op |-> "resume", ctx |-> audioContext,
                                       from |-> internalState])
                 /\ outcome' = "ok"
                 /\ UNCHANGED <<audioBufferQueue, nextStartTime,
                                scheduledBufferSources, sources>>
            ELSE /\ SetSched(PlayTail("playing"))
                 /\ outcome' = "ok"
                 /\ UNCHANGED pending

Play ==
    /\ PlayBody
    /\ UNCHANGED <<audioContext, ctxState, ctxTime, nChunks, resetsBegun,
                   nEnded, lastEndedAt, callerPc, lvars, stopErrors>>

Pause ==
    /\ IF internalState # "playing"
       THEN /\ outcome' = "ok"
            /\ UNCHANGED <<internalState, pending>>
       ELSE /\ Len(pending) < MaxPending
            /\ internalState' = "paused"
            /\ pending' = Append(pending,
                                 [op |-> "suspend", ctx |-> audioContext,
                                  from |-> "-"])
            /\ outcome' = "ok"
    /\ UNCHANGED <<audioBufferQueue, nextStartTime, scheduledBufferSources,
                   audioContext, ctxState, ctxTime, sources, nChunks,
                   resetsBegun, nEnded, lastEndedAt, callerPc, lvars, stopErrors>>

\* the loop of reset() over the in-flight sources (lines 271-278), threw
\* being the sources whose stop() throws: without the catch the first throw
\* ends the loop, with it every other source is stopped
StopLoopNoCatch(threw) ==
    [i \in DOMAIN sources |->
        IF \E k \in DOMAIN scheduledBufferSources :
              /\ scheduledBufferSources[k] = i
              /\ \A j \in 1..k : scheduledBufferSources[j] \notin threw
        THEN [sources[i] EXCEPT !.stopped = TRUE]
        ELSE sources[i]]
StopLoop(threw) ==
    [i \in DOMAIN sources |->
        IF i \in Range(scheduledBufferSources) \ threw
        THEN [sources[i] EXCEPT !.stopped = TRUE]
        ELSE sources[i]]

\* reset() up to its await (lines 269-282), stop() throwing for the sources
\* in threw
ResetStopping(threw) ==
    /\ resetsBegun < MaxResets
    /\ Len(pending) < MaxPending
    /\ threw \subseteq Range(scheduledBufferSources)
    /\ internalState' = "resetting"
    /\ sources' = Forget(StopLoop(threw))
    /\ stopErrors' = threw
    /\ scheduledBufferSources' = <<>>
    /\ pending' = Append(pending, [op |-> "close", ctx |-> audioContext,
                                   from |-> "-"])
    /\ resetsBegun' = resetsBegun + 1
    /\ outcome' = "ok"
    /\ UNCHANGED <<audioBufferQueue, nextStartTime, audioContext, ctxState,
                   ctxTime, nChunks, nEnded, lastEndedAt, callerPc, lvars>>

\* stop() of a source that was started does not throw (Web Audio)
Reset == ResetStopping({})

\* ---------------------------------------------------------- device steps
\* The device takes the operations of one context in the order it got them.
IsNext(i) ==
    /\ i \in DOMAIN pending
    /\ \A j \in 1..(i - 1) : pending[j].ctx # pending[i].ctx

Drop(i) == SubSeq(pending, 1, i - 1) \o SubSeq(pending, i + 1, Len(pending))

\* resume() resolves: the context runs, play() goes on from line 245
ResumeDone(i) ==
    /\ IsNext(i)
    /\ pending[i].op = "resume"
    /\ pending' = Drop(i)
    /\ ctxState' = IF ctxState[pending[i].ctx] = "closed" THEN ctxState
                   ELSE [ctxState EXCEPT ![pending[i].ctx] = "running"]
    /\ SetSched(PlayTail(internalState))
    /\ outcome' = "ok"
    /\ UNCHANGED <<internalState, audioContext, ctxTime, nChunks,
                   resetsBegun, nEnded, lastEndedAt, callerPc, lvars, stopErrors>>

\* suspend() resolves: the context stops; pause() has nothing left to do
SuspendDone(i) ==
    /\ IsNext(i)
    /\ pending[i].op = "suspend"
    /\ pending' = Drop(i)
    /\ ctxState' = IF ctxState[pending[i].ctx] = "closed" THEN ctxState
                   ELSE [ctxState EXCEPT ![pending[i].ctx] = "suspended"]
    /\ outcome' = "ok"
    /\ UNCHANGED <<internalState, audioBufferQueue, nextStartTime,
                   scheduledBufferSources, audioContext, ctxTime, sources,
                   nChunks, resetsBegun, nEnded, lastEndedAt, callerPc, lvars, stopErrors>>

\* this.eventTarget = new EventTarget() (line 289)
SameEventTarget == eventTarget
NewEventTarget == {}

\* close() resolves: reset() goes on from line 283; the new AudioContext
\* starts suspended or running (autoplay policy)
CloseDone(i, s0) ==
    /\ IsNext(i)
    /\ pending[i].op = "close"
    /\ pending' = Drop(i)
    /\ audioContext' = audioContext + 1
    /\ ctxState' = [c \in 0..(audioContext + 1) |->
                      IF c = audioContext + 1 THEN s0
                      ELSE IF c = pending[i].ctx THEN "closed"
                      ELSE ctxState[c]]
    /\ ctxTime' = [c \in 0..(audioContext + 1) |->
                      IF c = audioContext + 1 THEN 0 ELSE ctxTime[c]]
    /\ audioBufferQueue' = <<>>
    /\ nextStartTime' = 0
    /\ internalState' = "idle"
    /\ outcome' = "ok"
    /\ sources' = Forget(sources)
    /\ eventTarget' = NewEventTarget
    /\ stale' = stale \cup eventTarget
    /\ UNCHANGED <<scheduledBufferSources, nChunks, resetsBegun,
                   nEnded, lastEndedAt, callerPc, invoked, stopErrors>>

\* a promise of a context that is already closed rejects: the awaiting
\* method throws and its continuation never runs
Rejected(i) ==
    /\ IsNext(i)
    /\ ctxState[pending[i].ctx] = "closed"
    /\ pending' = Drop(i)
    /\ outcome' = "rejected"
    /\ UNCHANGED <<internalState, audioBufferQueue, nextStartTime,
                   scheduledBufferSources, audioContext, ctxState, ctxTime,
                   sources, nChunks, resetsBegun, nEnded, lastEndedAt, callerPc, lvars, stopErrors>>

\* the clock of a running context advances
Tick(c) ==
    /\ c \in DOMAIN ctxState
    /\ ctxState[c] = "running"
    /\ ctxTime[c] < MaxTime
    /\ ctxTime' = [ctxTime EXCEPT ![c] = @ + 1]
    /\ outcome' = "ok"
    /\ UNCHANGED <<internalState, audioBufferQueue, nextStartTime,
                   scheduledBufferSources, audioContext, ctxState, pending,
                   sources, nChunks, resetsBegun, nEnded, lastEndedAt, callerPc, lvars, stopErrors>>

\* the device may deliver the ended event of a source once the source was
\* stopped or its context's clock reached its end
Finished(s) ==
    \/ sources[s].stopped
    \/ ctxTime[sources[s].ctx] >= sources[s].start + sources[s].dur

\* the first test of source.onended (lines 204-206)
OnEndedNeverIgnored == FALSE
OnEndedIgnored == internalState = "resetting"

\* source.onended (lines 203-222)
OnEndedBody(s) ==
    IF OnEndedIgnored
    THEN /\ sources' = [sources EXCEPT ![s].fired = TRUE]
         /\ outcome' = "ok"
         /\ UNCHANGED <<internalState, audioBufferQueue, nextStartTime,
                        scheduledBufferSources, nEnded, lastEndedAt, invoked>>
    ELSE LET sched1 == Remove(scheduledBufferSources, s)
             srcs1 == [sources EXCEPT ![s].fired = TRUE]
         IN IF sched1 = <<>> /\ audioBufferQueue = <<>>
            THEN /\ internalState' = "ended"
                 /\ nEnded' = nEnded + 1
                 /\ lastEndedAt' = Len(sources)
                 /\ invoked' = eventTarget
                 /\ scheduledBufferSources' = sched1
                 /\ sources' = srcs1
                 /\ outcome' = "ok"
                 /\ UNCHANGED <<audioBufferQueue, nextStartTime>>
            ELSE /\ SetSched(ScheduleNextBufferSource(internalState,
                        [Sched EXCEPT !.sched = sched1, !.srcs = srcs1],
                        Len(sources) + 1))
                 /\ outcome' = "ok"
                 /\ UNCHANGED <<internalState, nEnded, lastEndedAt, invoked>>

OnEnded(s) ==
    /\ s \in DOMAIN sources
    /\ ~sources[s].fired
    /\ Finished(s)
    /\ OnEndedBody(s)
    /\ UNCHANGED <<audioContext, ctxState, ctxTime, pending, nChunks,
                   resetsBegun, callerPc, eventTarget, stale, stopErrors>>

\* ----------------------------------------------------------------- Spec
Next ==
    \/ \E d \in Durations : AddChunk(d)
    \/ Play
    \/ Pause
    \/ Reset
    \/ \E i \in 1..MaxPending : ResumeDone(i)
    \/ \E i \in 1..MaxPending : SuspendDone(i)
    \/ \E i \in 1..MaxPending, s0 \in {"suspended", "running"} : CloseDone(i, s0)
    \/ \E i \in 1..MaxPending : Rejected(i)
    \/ \E c \in 0..MaxResets : Tick(c)
    \/ \E s \in 1..MaxChunks : OnEnded(s)

Spec == Init /\ [][Next]_vars

\* addEventListener('ended', l) (lines 293-299)
AddEventListener(l) ==
    /\ eventTarget' = eventTarget \cup {l}
    /\ stale' = stale \ {l}
    /\ outcome' = "ok"
    /\ UNCHANGED <<internalState, audioBufferQueue, nextStartTime,
                   scheduledBufferSources, audioContext, ctxState, ctxTime,
                   pending, sources, nChunks, resetsBegun, nEnded,
                   lastEndedAt, invoked, stopErrors, callerPc>>

\* The player with callers that register listeners and never pause().
\* Listeners touch no other state of the player, and Spec leaves them out.
NextListeners ==
    \/ \E d \in Durations : AddChunk(d)
    \/ Play
    \/ Reset
    \/ \E i \in 1..MaxPending : ResumeDone(i)
    \/ \E i \in 1..MaxPending, s0 \in {"suspended", "running"} : CloseDone(i, s0)
    \/ \E i \in 1..MaxPending : Rejected(i)
    \/ \E c \in 0..MaxResets : Tick(c)
    \/ \E s \in 1..MaxChunks : OnEnded(s)
    \/ \E l \in Listeners : AddEventListener(l)

SpecListeners == Init /\ [][NextListeners]_vars

\* The player with a stop() that may throw in reset(), callers that never
\* pause(), and a device that settles every promise it was given and
\* completes every close(): only a resume() may reject.
ResetStep == \E threw \in SUBSET (1..MaxChunks) : ResetStopping(threw)
CloseStep ==
    \E i \in 1..MaxPending, s0 \in {"suspended", "running"} : CloseDone(i, s0)
ResumeSettles == \E i \in 1..MaxPending : ResumeDone(i)
ResumeRejected(i) == Rejected(i) /\ pending[i].op = "resume"

NextReset ==
    \/ \E d \in Durations : AddChunk(d)
    \/ Play
    \/ ResetStep
    \/ ResumeSettles
    \/ CloseStep
    \/ \E i \in 1..MaxPending : ResumeRejected(i)
    \/ \E c \in 0..MaxResets : Tick(c)
    \/ \E s \in 1..MaxChunks : OnEnded(s)

SpecReset ==
    /\ Init
    /\ [][NextReset]_vars
    /\ WF_vars(ResumeSettles)
    /\ WF_vars(CloseStep)

\* ------------------------------------------------- the scripted caller
\* A caller that calls play() before any addChunk() and play() again after
\* every addChunk() (the loop of lines 45-52 without its state test), and
\* never pause() or reset().
CallerInit ==
    /\ internalState = "idle"
    /\ audioBufferQueue = <<>>
    /\ nextStartTime = 0
    /\ scheduledBufferSources = <<>>
    /\ audioContext = 0
    /\ ctxState \in [{0} -> {"suspended", "running"}]
    /\ ctxTime = [c \in {0} |-> 0]
    /\ pending = <<>>
    /\ sources = <<>>
    /\ nChunks = 0
    /\ resetsBegun = 0
    /\ nEnded = 0
    /\ lastEndedAt = -1
    /\ outcome = "ok"
    /\ eventTarget = {}
    /\ stale = {}
    /\ invoked = {}
    /\ stopErrors = {}
    /\ callerPc = "play"

CallerPlay ==
    /\ callerPc = "play"
    /\ PlayBody
    /\ callerPc' = "addChunk"
    /\ UNCHANGED <<audioContext, ctxState, ctxTime, nChunks, resetsBegun,
                   nEnded, lastEndedAt, lvars, stopErrors>>

CallerAddChunk(d) ==
    /\ callerPc = "addChunk"
    /\ AddChunkBody(d)
    /\ callerPc' = "play"
    /\ UNCHANGED <<internalState, nextStartTime, scheduledBufferSources,
                   audioContext, ctxState, ctxTime, pending, sources,
                   resetsBegun, nEnded, lastEndedAt, lvars, stopErrors>>

CallerStep == CallerPlay \/ \E d \in Durations : CallerAddChunk(d)
ResumeStep == \E i \in 1..MaxPending : ResumeDone(i)
TickStep == \E c \in 0..MaxResets : Tick(c)
OnEndedStep == \E s \in 1..MaxChunks : OnEnded(s)

NextCaller ==
    \/ CallerStep
    \/ ResumeStep
    \/ TickStep
    \/ OnEndedStep

\* The event loop runs every callback that is ready: the caller goes on, a
\* promise that can settle settles, a clock that runs advances, an ended
\* event that is due is delivered.
SpecCaller ==
    /\ CallerInit
    /\ [][NextCaller]_vars
    /\ WF_vars(CallerStep)
    /\ WF_vars(ResumeStep)
    /\ WF_vars(TickStep)
    /\ WF_vars(OnEndedStep)

\* ---------------------------------------------------------------- claims
ResetInFlight == \E i \in DOMAIN pending : pending[i].op = "close"

ResetCompletes ==
    \E i \in 1..MaxPending, s0 \in {"suspended", "running"} : CloseDone(i, s0)

Emits == nEnded' = nEnded + 1

\* the sources whose record is kept (see Forget)
Kept == {i \in DOMAIN sources : sources[i].buf # 0}

End(s) == s.start + s.dur

\* C1: when a reset() call completes, the state is idle, the queue and the
\* in-flight set are empty and nextStartTime is 0, whatever ran while the
\* call awaited close().
C1_ResetEndsClean ==
    [][ResetCompletes =>
          /\ internalState' = "idle"
          /\ audioBufferQueue' = <<>>
          /\ scheduledBufferSources' = <<>>
          /\ nextStartTime' = 0]_vars

\* C2: every 'ended' event is dispatched with the queue and the in-flight
\* set both empty, and after one 'ended' no other is dispatched before a
\* new buffer was submitted; 3 queued buffers, play() and three completions
\* give exactly one 'ended'.
C2_EndedOncePerPlayThrough ==
    /\ [][Emits =>
            /\ audioBufferQueue' = <<>>
            /\ scheduledBufferSources' = <<>>
            /\ Len(sources) > lastEndedAt]_vars
    /\ []((/\ resetsBegun = 0
           /\ nChunks = 3
           /\ Len(sources) = 3
           /\ \A i \in 1..3 : sources[i].pass = 1 /\ sources[i].fired)
          => nEnded = 1)

\* C3: the state ended is entered only from the state playing.
C3_EndedOnlyFromPlaying ==
    [][(internalState' = "ended" /\ internalState # "ended")
          => internalState = "playing"]_vars

\* C4: addChunk() called in state resetting throws and leaves the queue as
\* it was.
C4_AddChunkWhileResettingFails ==
    [][\A d \in Durations :
          (internalState = "resetting" /\ AddChunk(d)) =>
              /\ outcome' = "Cannot add chunk while resetting"
              /\ audioBufferQueue' = audioBufferQueue
              /\ nChunks' = nChunks]_vars

C4_Witness ==
    /\ internalState = "resetting"
    /\ outcome = "Cannot add chunk while resetting"
    /\ audioBufferQueue # <<>>

\* C5: between the start of a reset() call and its completion no chunk is
\* accepted into the queue.
C5_NoChunkWhileResetInFlight ==
    [][ResetInFlight =>
          /\ nChunks' = nChunks
          /\ Len(audioBufferQueue') <= Len(audioBufferQueue)]_vars

\* C6: buffers submitted one after the other in the same scheduling pass
\* abut: the later one starts where the earlier one ends; 3 buffers of
\* 0.5 s (one tick) queued at device time 0 are submitted by play() at
\* 0.0, 0.5 and 1.0 s (ticks 0, 1 and 2).
C6_GaplessWithinPass ==
    /\ \A i \in Kept : \A j \in Kept :
          (j = i + 1 /\ sources[i].pass = sources[j].pass)
              => sources[j].start = End(sources[i])
    /\ (/\ Len(sources) >= 3
        /\ \A i \in 1..3 : /\ i \in Kept
                           /\ sources[i].pass = 1
                           /\ sources[i].dur = 1
        /\ sources[1].start = 0)
       => (sources[2].start = 1 /\ sources[3].start = 2)

C6_Witness ==
    /\ Len(sources) = 3
    /\ \A i \in 1..3 : sources[i].pass = 1 /\ sources[i].dur = 1
    /\ sources[1].start = 0
    /\ sources[3].start = 2

\* C7: a buffer added while its predecessor was in flight and the player
\* was playing is submitted to start exactly at the predecessor's end.
C7_GaplessAcrossArrival ==
    \A j \in Kept :
        (sources[j].after # 0 /\ sources[j].after \in Kept)
            => sources[j].start = End(sources[sources[j].after])

\* C8: between two resets buffers are submitted in the order addChunk took
\* them and never overlap: of two buffers taken and submitted with no reset
\* step in between, the one taken first is submitted first and ends before
\* the other starts.
C8_EnqueueOrder ==
    \A i \in Kept : \A j \in Kept :
        (/\ sources[i].buf < sources[j].buf
         /\ sources[i].added = sources[i].epoch
         /\ sources[j].added = sources[j].epoch
         /\ sources[i].epoch = sources[j].epoch)
            => (i < j /\ End(sources[i]) <= sources[j].start)

C8_Witness ==
    /\ Len(sources) >= 2
    /\ {1, 2} \subseteq Kept
    /\ sources[1].pass # sources[2].pass
    /\ sources[1].epoch = sources[2].epoch
    /\ sources[2].added = sources[2].epoch
    /\ sources[1].added = sources[1].epoch
    /\ sources[2].start > End(sources[1])

\* C9: play() in state idle with an empty queue changes nothing: the state
\* stays idle and nothing is scheduled.
C9_PlayIdleEmptyIsNoop ==
    [][(internalState = "idle" /\ audioBufferQueue = <<>> /\ Play) =>
          /\ internalState' = "idle"
          /\ scheduledBufferSources' = scheduledBufferSources
          /\ sources' = sources]_vars

\* a step of play() taken from idle with nothing in flight: the call itself,
\* or its continuation after the await of resume()
PlayFromIdleStep ==
    \/ internalState = "idle" /\ scheduledBufferSources = <<>> /\ Play
    \/ \E i \in 1..MaxPending :
          /\ ResumeDone(i)
          /\ pending[i].from = "idle"
          /\ scheduledBufferSources = <<>>

\* C11: nextStartTime never decreases, except in a step of play() taken from
\* idle with an empty in-flight set and in a step of reset().  (Completions
\* of sources that were not stopped are delivered only once the clock
\* reached their end: Finished.)
C11_NextStartTimeMonotone ==
    [][nextStartTime' < nextStartTime =>
          (PlayFromIdleStep \/ ResetCompletes \/ Reset)]_vars

\* a step of pause(), or of play() taken from paused (the call itself or its
\* continuation after the await of resume())
PauseResumeStep ==
    \/ Pause
    \/ internalState = "paused" /\ Play
    \/ \E i \in 1..MaxPending : ResumeDone(i) /\ pending[i].from = "paused"

\* a buffer that was submitted is in the queue no more, and no two sources
\* hold the same buffer
SubmittedOnce ==
    /\ \A i \in Kept : \A j \in Kept :
          i # j => sources[i].buf # sources[j].buf
    /\ \A i \in Kept : \A k \in DOMAIN audioBufferQueue :
          sources[i].buf # audioBufferQueue[k].id

\* C12: pause() and the play() that resumes, taken while a buffer is in
\* flight, leave the in-flight set, every source (its start time) and
\* nextStartTime as they were; no buffer is submitted twice.
C12_PauseResumeTransparent ==
    /\ [][(scheduledBufferSources # <<>> /\ PauseResumeStep) =>
            /\ scheduledBufferSources' = scheduledBufferSources
            /\ sources' = sources
            /\ nextStartTime' = nextStartTime]_vars
    /\ []SubmittedOnce

\* play(), pause() in the middle of the first buffer, play() again: the
\* resume is awaited with the first source still in flight
C12_Witness ==
    /\ internalState = "playing"
    /\ audioBufferQueue # <<>>
    /\ scheduledBufferSources = <<1>>
    /\ 1 \in Kept
    /\ sources[1].start < ctxTime[sources[1].ctx]
    /\ ctxTime[sources[1].ctx] < End(sources[1])
    /\ \E i \in DOMAIN pending :
          pending[i].op = "resume" /\ pending[i].from = "paused"

\* C13: an 'ended' event calls the listeners registered on the current
\* EventTarget and no other: a listener registered before a reset() that has
\* completed, and not registered again since, is not called; a listener
\* registered after it is.
C13_ResetDropsListeners ==
    [][Emits =>
          /\ invoked' \cap stale = {}
          /\ eventTarget \subseteq invoked']_vars

\* after a completed reset an 'ended' event called listener 2, registered
\* after the reset, and not listener 1, registered only before it
C13_Witness ==
    /\ audioContext = 1
    /\ internalState = "ended"
    /\ stale = {1}
    /\ eventTarget = {2}
    /\ invoked = {2}

\* C14: a reset() call in which stop() throws for some in-flight sources
\* throws nothing, empties the in-flight set and stops every other source;
\* every reset() call completes, with the state idle, when the device
\* completes every close().
C14_ResetAlwaysReachesIdle ==
    /\ [][ResetStep =>
            /\ outcome' = "ok"
            /\ scheduledBufferSources' = <<>>
            /\ \A s \in Range(scheduledBufferSources) \ stopErrors' :
                  sources'[s].stopped]_vars
    /\ ResetInFlight ~> (~ResetInFlight /\ internalState = "idle")

\* a reset() in flight in which stop() threw for the first of two in-flight
\* sources and the second was stopped
C14_Witness ==
    /\ ResetInFlight
    /\ stopErrors = {1}
    /\ Len(sources) >= 2
    /\ sources[2].stopped
    /\ scheduledBufferSources = <<>>

\* C15: a step that takes a buffer off the queue and submits it leaves the
\* state playing (the state it was submitted in); addChunk() changes neither
\* the state nor the in-flight set nor any source nor the device.
C15_SubmitOnlyWhilePlaying ==
    [][/\ (Len(sources') > Len(sources) => internalState' = "playing")
       /\ \A d \in Durations : AddChunk(d) =>
              /\ internalState' = internalState
              /\ scheduledBufferSources' = scheduledBufferSources
              /\ sources' = sources
              /\ pending' = pending
              /\ ctxState' = ctxState]_vars

\* a chunk added in state paused, the resume() of the earlier play() settled
\* since: nothing was submitted
C15_Witness ==
    /\ internalState = "paused"
    /\ audioBufferQueue # <<>>
    /\ sources = <<>>
    /\ ctxState[audioContext] = "running"
    /\ \A i \in DOMAIN pending : pending[i].op = "suspend"

\* a step of play() that submits: the call itself or its continuation after
\* the await of resume(); it sets nextStartTime to the device clock first
PlaySubmits == Play \/ \E i \in 1..MaxPending : ResumeDone(i)

\* C16: every submission starts at the later of nextStartTime as it was just
\* before the submission and the device clock, hence not before the device
\* clock, and leaves nextStartTime at its start plus its duration.
C16_NeverScheduledInPast ==
    [][Len(sources') > Len(sources) =>
          LET now == ctxTime[audioContext]
              first == Len(sources) + 1
              last == Len(sources')
              before(j) == IF j > first THEN End(sources'[j - 1])
                           ELSE IF PlaySubmits THEN now
                           ELSE nextStartTime
          IN /\ \A j \in first..last :
                   /\ sources'[j].start = Max(before(j), now)
                   /\ sources'[j].start >= now
                   /\ sources'[j].ctx = audioContext
             /\ nextStartTime' = End(sources'[last])]_vars

\* a completion delivered late submitted the second buffer at the device
\* clock, after the end of the first; a third followed it in the same pass
C16_Witness ==
    /\ resetsBegun = 0
    /\ Len(sources) = 3
    /\ sources[1].fired
    /\ sources[2].pass = 2
    /\ sources[3].pass = 2
    /\ sources[2].start > End(sources[1])
    /\ sources[3].start = End(sources[2])
    /\ nextStartTime = End(sources[3])

\* C17: a completion callback that runs in state resetting changes neither
\* the state nor the queue nor the in-flight set nor nextStartTime, emits no
\* 'ended' and submits nothing.
C17_CompletionWhileResettingIgnored ==
    [][\A s \in 1..MaxChunks :
          (internalState = "resetting" /\ OnEnded(s)) =>
              /\ internalState' = internalState
              /\ audioBufferQueue' = audioBufferQueue
              /\ scheduledBufferSources' = scheduledBufferSources
              /\ nextStartTime' = nextStartTime
              /\ nEnded' = nEnded
              /\ invoked' = invoked
              /\ Len(sources') = Len(sources)]_vars

\* the completion of a source that reset() stopped was delivered while the
\* reset was in flight, a buffer still queued
C17_Witness ==
    /\ internalState = "resetting"
    /\ audioBufferQueue # <<>>
    /\ nextStartTime > 0
    /\ \E s \in DOMAIN sources : sources[s].stopped /\ sources[s].fired

\* C18: when no play(), pause() or reset() call awaits the device, the
\* state playing implies that the clock of the current AudioContext runs.
C18_PlayingImpliesClockRunning ==
    (pending = <<>> /\ internalState = "playing")
        => ctxState[audioContext] = "running"

\* C19: from the step where reset() sets resetting until the step where it
\* sets idle, that is while its close() is awaited, the state is resetting.
C19_ResettingWhileResetInFlight ==
    ResetInFlight => internalState = "resetting"

\* C10: for the scripted caller (play() first, play() again after every
\* addChunk(), no pause() or reset()) every buffer added is eventually
\* submitted to the device.
C10_EveryBufferSubmitted ==
    \A k \in 1..MaxChunks : (nChunks >= k) ~> (Len(sources) >= k)

TypeOK ==
    /\ internalState \in States
    /\ nChunks \in 0..MaxChunks
    /\ \A i \in DOMAIN audioBufferQueue :
          /\ audioBufferQueue[i].id \in 1..nChunks
          /\ audioBufferQueue[i].dur \in Durations
    /\ nextStartTime \in 0..(MaxTime + MaxChunks * MaxDur)
    /\ Range(scheduledBufferSources) \subseteq DOMAIN sources
    /\ \A s \in Range(scheduledBufferSources) : ~sources[s].fired
    /\ Len(sources) <= nChunks
    /\ audioContext \in 0..resetsBegun
    /\ resetsBegun \in 0..MaxResets
    /\ DOMAIN ctxState = 0..audioContext
    /\ DOMAIN ctxTime = 0..audioContext
    /\ \A c \in DOMAIN ctxState :
          /\ ctxState[c] \in {"suspended", "running", "closed"}
          /\ ctxTime[c] \in 0..MaxTime
    /\ Len(pending) <= MaxPending
    /\ nEnded \in 0..MaxChunks
    /\ lastEndedAt \in -1..MaxChunks
    /\ outcome \in {"ok", "rejected", "Cannot add chunk while resetting"}
    /\ eventTarget \subseteq Listeners
    /\ stale \subseteq Listeners
    /\ invoked \subseteq Listeners
    /\ stopErrors \subseteq DOMAIN sources
====
